---- MODULE Spec2Model ----
(***************************************************************************)
(* Event registration of tt_event_management (Django REST framework).      *)
(*                                                                         *)
(* The database runs in Django's default autocommit mode: every ORM query  *)
(* of a view is its own transaction, so the queries of concurrent requests *)
(* interleave.  A request is a slot of `req`; its pc names the next query  *)
(* of its handler.                                                         *)
(***************************************************************************)
EXTENDS Integers, Sequences, FiniteSets, TLC

\* ---------------------------------------------------------------- bounds
NumUsers == 2
NumEvents == 2
NumReq == 2
MaxTime == 2
StartTime == 1
MaxCapacity == 1
MaxRows == 2

Users == 1..NumUsers
Events == 1..NumEvents
Requests == 1..NumReq
\* request.user of a request without valid credentials (AnonymousUser)
Anonymous == 0
\* who sends requests
Callers == Users \cup {Anonymous}
\* the ids a row of EventRegistration can carry
Ids == 1..MaxRows

\* ------------------------------------------------ values of the program
\* max_participants is NULL (null=True); set values are at least 1
None == 0

HTTP_200_OK == 200
HTTP_201_CREATED == 201
HTTP_204_NO_CONTENT == 204
HTTP_400_BAD_REQUEST == 400
HTTP_401_UNAUTHORIZED == 401
HTTP_403_FORBIDDEN == 403
HTTP_404_NOT_FOUND == 404

MsgDoesNotExist == "Event does not exist."
MsgPast == "Cannot register for past events."
MsgFull == "Event is full."
MsgAlready == "You are already registered for this event."
MsgNotRegistered == "You are not registered for this event"
MsgOnlyOrganizer == "Only the organizer can view registrations"
MsgUnregistered == "Successfully unregistered from event"
MsgNotFound == "Not found."
MsgPermissionDenied == "You do not have permission to perform this action."
MsgNotAuthenticated == "Authentication credentials were not provided."
\* exceptions no handler of the view catches
IntegrityError == "IntegrityError"
DoesNotExist == "Event.DoesNotExist"

\* a worker that handles no request
Idle == [op |-> "none", user |-> 0, event |-> 0, pc |-> "idle", reg |-> 0]

\* no response was sent by the last step
\* (mail: what the step's notification attempt came to, "" when it made none)
NoResponse == [op |-> "none", user |-> 0, event |-> 0, status |-> 0,
               detail |-> "", reg |-> 0, body |-> << >>, mail |-> ""]

VARIABLES
    now,            \* timezone.now()
    events,         \* table Event: id -> row
    registrations,  \* table EventRegistration: set of rows
    req,            \* the requests in flight, one per worker
    resp            \* the response the last step sent, if it sent one

vars == << now, events, registrations, req, resp >>

\* ------------------------------------------------------------ models.py
\* Event.registrations (related_name of EventRegistration.event)
RegistrationsOf(e) == { g \in registrations : g.event = e }

\* Event.registered_count
registered_count(e) == Cardinality(RegistrationsOf(e))

\* Event.is_full
is_full(e) ==
    IF events[e].max_participants = None
    THEN FALSE
    ELSE registered_count(e) >= events[e].max_participants

\* mutant of is_past: an event that starts now is past
is_past_Inclusive(e) == events[e].date <= now

\* Event.is_past
is_past(e) == events[e].date < now

\* EventRegistration.objects.filter(event=e, user=u)
Filter(e, u) == { g \in registrations : g.event = e /\ g.user = u }

\* mutant of UniqueViolation: the table has no unique constraint
UniqueViolationOff(e, u) == FALSE

\* unique_together = ['event', 'user']: does the insert of (e, u) violate it
UniqueViolation(e, u) == Filter(e, u) # {}

\* event = ForeignKey(Event): does a row for event e violate the reference
ForeignKeyViolation(e) == ~events[e].live

\* the primary key of a new row: a value no row carries and no request in
\* flight still holds (keys are only ever compared for equality)
FreshIds ==
    { i \in Ids :
        /\ \A g \in registrations : g.id # i
        /\ \A r \in Requests : req[r].reg # i
        /\ \A f \in Ids : f < i =>
              \/ \E g \in registrations : g.id = f
              \/ \E r \in Requests : req[r].reg = f }

\* validators=[MinValueValidator(1)], null=True
Capacities == {None} \cup (1..MaxCapacity)

\* ------------------------------------------------------- serializers.py
\* mutant of validate_event_id: the capacity is checked before the date
validate_event_id_FullFirst(e, u) ==
    IF ~events[e].live THEN MsgDoesNotExist
    ELSE IF is_full(e) THEN MsgFull
    ELSE IF is_past(e) THEN MsgPast
    ELSE IF Filter(e, u) # {} THEN MsgAlready
    ELSE ""

\* mutant of validate_event_id: a full event and a duplicate are reported
\* with the same message
validate_event_id_OneMessage(e, u) ==
    IF ~events[e].live THEN MsgDoesNotExist
    ELSE IF is_past(e) THEN MsgPast
    ELSE IF is_full(e) THEN MsgFull
    ELSE IF Filter(e, u) # {} THEN MsgFull
    ELSE ""

\* EventRegistrationCreateSerializer.validate_event_id: the first error
\* raised, or "" when the value is valid
validate_event_id(e, u) ==
    IF ~events[e].live THEN MsgDoesNotExist
    ELSE IF is_past(e) THEN MsgPast
    ELSE IF is_full(e) THEN MsgFull
    ELSE IF Filter(e, u) # {} THEN MsgAlready
    ELSE ""

\* ------------------------------------------------------------- views.py
\* mutant of Response: the confirmation is sent with every answer of
\* register, the errors included
ResponseNotifying(r, st, msg) ==
    [op |-> req[r].op, user |-> req[r].user, event |-> req[r].event,
     status |-> st, detail |-> msg, reg |-> 0, body |-> << >>,
     mail |-> IF req[r].op = "register" THEN "sent" ELSE ""]

\* the response of request r
Response(r, st, msg) ==
    [op |-> req[r].op, user |-> req[r].user, event |-> req[r].event,
     status |-> st, detail |-> msg, reg |-> 0, body |-> << >>, mail |-> ""]

\* an exception leaves the view: the request ends without a typed response
\* (status 0), detail names the exception
Fault(r, exc) == Response(r, 0, exc)

\* mutant of IsAuthenticated: the actions are open to everyone
IsAuthenticatedAllowAny(u) == TRUE

\* permission_classes=[IsAuthenticated] of the three actions
IsAuthenticated(u) == u # Anonymous

\* the response to a request the permission check refuses
Unauthenticated(o, u, e) ==
    [NoResponse EXCEPT !.op = o, !.user = u, !.event = e,
                       !.status = HTTP_401_UNAUTHORIZED,
                       !.detail = MsgNotAuthenticated]

\* self.get_object() of action o called by u on e: the event is found
Found(e) == events[e].live

\* the response to get_object()'s Http404
NotFound(o, u, e) ==
    [NoResponse EXCEPT !.op = o, !.user = u, !.event = e,
                       !.status = HTTP_404_NOT_FOUND, !.detail = MsgNotFound]

\* the first step of the three actions: the permission check, get_object(),
\* then on to pc `first`
Begin(r, o, u, e, first) ==
    /\ req[r].pc = "idle"
    /\ IF ~IsAuthenticated(u)
       THEN /\ resp' = Unauthenticated(o, u, e)
            /\ UNCHANGED req
       ELSE IF Found(e)
       THEN /\ req' = [req EXCEPT ![r] =
                        [op |-> o, user |-> u, event |-> e, pc |-> first, reg |-> 0]]
            /\ resp' = NoResponse
       ELSE /\ resp' = NotFound(o, u, e)
            /\ UNCHANGED req

\* mutant of Deleted: every registration of the row's event goes with it
DeletedWholeEvent(i) ==
    { g \in registrations :
        \A h \in registrations : h.id = i => g.event # h.event }

\* mutant of Deleted: the row is looked up and never deleted
DeletedNone(i) == registrations

\* registration.delete(): the table without the row of primary key i
Deleted(i) == { g \in registrations : g.id # i }

\* mutant of IsOrganizer: whoever is registered for the event may list it too
IsOrganizerOrRegistered(e, u) == events[e].organizer = u \/ Filter(e, u) # {}

\* event.organizer != request.user, negated
IsOrganizer(e, u) == events[e].organizer = u

\* mutant of Ordered: the rows oldest first
OrderedAscending(S) ==
    { s \in [1..Cardinality(S) -> S] :
        /\ \A i, j \in 1..Cardinality(S) : i # j => s[i] # s[j]
        /\ \A i, j \in 1..Cardinality(S) :
              i < j => s[i].registered_at <= s[j].registered_at }

\* the querysets' order, Meta.ordering = ['-registered_at']: every order of
\* the rows of S with registered_at descending (rows of equal time in any order)
Ordered(S) ==
    { s \in [1..Cardinality(S) -> S] :
        /\ \A i, j \in 1..Cardinality(S) : i # j => s[i] # s[j]
        /\ \A i, j \in 1..Cardinality(S) :
              i < j => s[i].registered_at >= s[j].registered_at }

\* the events that exist when the requests start: event e was published by
\* user ((e - 1) % NumUsers) + 1 to start at StartTime, with any capacity
EventTables ==
    { t \in [Events -> [live : {TRUE}, organizer : Users, date : {StartTime},
                        max_participants : Capacities]] :
        \A e \in Events : t[e].organizer = ((e - 1) % NumUsers) + 1 }

Init ==
    /\ now = 0
    /\ events \in EventTables
    /\ registrations = {}
    /\ req = [r \in Requests |-> Idle]
    /\ resp = NoResponse

\* the clock advances
Tick ==
    /\ now < MaxTime
    /\ now' = now + 1
    /\ resp' = NoResponse
    /\ UNCHANGED << events, registrations, req >>

\* EventViewSet.register, line 113: the request arrives and get_object() runs
RegisterBegin(r, u, e) ==
    /\ Begin(r, "register", u, e, "validate")
    /\ UNCHANGED << now, events, registrations >>

\* EventViewSet.register, lines 119 and 138: serializer.is_valid(); the
\* queries of validate_event_id are taken in one step
RegisterValidate(r) ==
    /\ req[r].op = "register" /\ req[r].pc = "validate"
    /\ LET msg == validate_event_id(req[r].event, req[r].user) IN
         IF msg = ""
         THEN /\ req' = [req EXCEPT ![r].pc = "create"]
              /\ resp' = NoResponse
         ELSE /\ req' = [req EXCEPT ![r] = Idle]
              /\ resp' = Response(r, HTTP_400_BAD_REQUEST, msg)
    /\ UNCHANGED << now, events, registrations >>

\* EventViewSet.register, line 120: serializer.save(), that is
\* EventRegistrationCreateSerializer.create, line 83: Event.objects.get
RegisterCreate(r) ==
    /\ req[r].op = "register" /\ req[r].pc = "create"
    /\ IF ~events[req[r].event].live
       THEN /\ req' = [req EXCEPT ![r] = Idle]
            /\ resp' = Fault(r, DoesNotExist)
       ELSE /\ req' = [req EXCEPT ![r].pc = "insert"]
            /\ resp' = NoResponse
    /\ UNCHANGED << now, events, registrations >>

\* EventRegistrationCreateSerializer.create, line 85:
\* EventRegistration.objects.create, the INSERT under the table's constraints
RegisterInsert(r) ==
    /\ req[r].op = "register" /\ req[r].pc = "insert"
    /\ LET e == req[r].event
           u == req[r].user IN
         IF ForeignKeyViolation(e) \/ UniqueViolation(e, u)
         THEN /\ req' = [req EXCEPT ![r] = Idle]
              /\ resp' = Fault(r, IntegrityError)
              /\ UNCHANGED registrations
         ELSE \E i \in FreshIds :
              /\ registrations' = registrations \cup
                    {[id |-> i, event |-> e, user |-> u, registered_at |-> now]}
              /\ req' = [req EXCEPT ![r].pc = "email", ![r].reg = i]
              /\ resp' = NoResponse
    /\ UNCHANGED << now, events >>

\* send_registration_email: send_mail(fail_silently=False) delivers the
\* message or raises
MailOutcomes == {"sent", "failed"}

\* mutant of Notified: the exception of send_mail is not caught
NotifiedUncaught(r, outcome) ==
    IF outcome = "failed"
    THEN [Fault(r, "SMTPException") EXCEPT !.mail = outcome]
    ELSE [Response(r, HTTP_201_CREATED, "") EXCEPT !.reg = req[r].reg,
                                                   !.mail = outcome]

\* EventViewSet.register, lines 123-136: the answer after the attempt came
\* to `outcome`; a failure is caught and printed
Notified(r, outcome) ==
    [Response(r, HTTP_201_CREATED, "") EXCEPT !.reg = req[r].reg,
                                              !.mail = outcome]

\* EventViewSet.register, lines 123-136: send_registration_email returns or
\* raises, and the registration is returned
RegisterEmail(r) ==
    /\ req[r].op = "register" /\ req[r].pc = "email"
    /\ req' = [req EXCEPT ![r] = Idle]
    /\ \E outcome \in MailOutcomes : resp' = Notified(r, outcome)
    /\ UNCHANGED << now, events, registrations >>

\* EventViewSet.unregister, line 145
UnregisterBegin(r, u, e) ==
    /\ Begin(r, "unregister", u, e, "lookup")
    /\ UNCHANGED << now, events, registrations >>

\* EventViewSet.unregister, lines 147-150 and 156-160: objects.get
UnregisterLookup(r) ==
    /\ req[r].op = "unregister" /\ req[r].pc = "lookup"
    /\ LET found == Filter(req[r].event, req[r].user) IN
         IF found = {}
         THEN /\ req' = [req EXCEPT ![r] = Idle]
              /\ resp' = Response(r, HTTP_404_NOT_FOUND, MsgNotRegistered)
         ELSE /\ \E g \in found :
                   req' = [req EXCEPT ![r].pc = "delete", ![r].reg = g.id]
              /\ resp' = NoResponse
    /\ UNCHANGED << now, events, registrations >>

\* EventViewSet.unregister, lines 151-155: registration.delete()
UnregisterDelete(r) ==
    /\ req[r].op = "unregister" /\ req[r].pc = "delete"
    /\ registrations' = Deleted(req[r].reg)
    /\ req' = [req EXCEPT ![r] = Idle]
    /\ resp' = Response(r, HTTP_200_OK, MsgUnregistered)
    /\ UNCHANGED << now, events >>

\* EventViewSet.registrations, line 168
ListBegin(r, u, e) ==
    /\ Begin(r, "registrations", u, e, "list")
    /\ UNCHANGED << now, events, registrations >>

\* EventViewSet.registrations, lines 169-177
ListRegistrations(r) ==
    /\ req[r].op = "registrations" /\ req[r].pc = "list"
    /\ req' = [req EXCEPT ![r] = Idle]
    /\ IF ~IsOrganizer(req[r].event, req[r].user)
       THEN resp' = Response(r, HTTP_403_FORBIDDEN, MsgOnlyOrganizer)
       ELSE \E s \in Ordered(RegistrationsOf(req[r].event)) :
              resp' = [Response(r, HTTP_200_OK, "") EXCEPT !.body = s]
    /\ UNCHANGED << now, events, registrations >>

\* the response of the event's own endpoints (update, destroy) to u on e
EventResponse(o, u, e, st, msg) ==
    [NoResponse EXCEPT !.op = o, !.user = u, !.event = e,
                       !.status = st, !.detail = msg]

\* what IsOwnerOrReadOnly and get_object() answer to a write of u on e, ""
\* when the write may go on
Refusal(o, u, e) ==
    IF ~IsAuthenticated(u) THEN Unauthenticated(o, u, e)
    ELSE IF ~Found(e) THEN NotFound(o, u, e)
    ELSE IF ~IsOrganizer(e, u)
    THEN EventResponse(o, u, e, HTTP_403_FORBIDDEN, MsgPermissionDenied)
    ELSE NoResponse

\* EventViewSet.partial_update with {max_participants: cap}: EventSerializer
\* validates the field by itself (null or at least 1) and saves it
UpdateEvent(u, e, cap) ==
    /\ IF Refusal("update", u, e) # NoResponse
       THEN /\ resp' = Refusal("update", u, e)
            /\ UNCHANGED events
       ELSE /\ events' = [events EXCEPT ![e].max_participants = cap]
            /\ resp' = EventResponse("update", u, e, HTTP_200_OK, "")
    /\ UNCHANGED << now, registrations, req >>

\* mutant of Cascaded: the registrations of a deleted event stay
CascadedNone(e) == registrations

\* on_delete=models.CASCADE: the table without the rows of event e
Cascaded(e) == { g \in registrations : g.event # e }

\* EventViewSet.destroy: the event's row goes, and its registrations with it
\* (instance.delete() deletes both in one transaction)
DeleteEvent(u, e) ==
    /\ IF Refusal("destroy", u, e) # NoResponse
       THEN /\ resp' = Refusal("destroy", u, e)
            /\ UNCHANGED << events, registrations >>
       ELSE /\ events' = [events EXCEPT ![e].live = FALSE,
                                        ![e].max_participants = None]
            /\ registrations' = Cascaded(e)
            /\ resp' = EventResponse("destroy", u, e, HTTP_204_NO_CONTENT, "")
    /\ UNCHANGED << now, req >>

\* the steps of the requests handled by the workers of R
Step(R) ==
    \/ Tick
    \/ \E r \in R, u \in Callers, e \in Events : RegisterBegin(r, u, e)
    \/ \E r \in R : RegisterValidate(r)
    \/ \E r \in R : RegisterCreate(r)
    \/ \E r \in R : RegisterInsert(r)
    \/ \E r \in R : RegisterEmail(r)
    \/ \E r \in R, u \in Callers, e \in Events : UnregisterBegin(r, u, e)
    \/ \E r \in R : UnregisterLookup(r)
    \/ \E r \in R : UnregisterDelete(r)
    \/ \E r \in R, u \in Callers, e \in Events : ListBegin(r, u, e)
    \/ \E r \in R : ListRegistrations(r)

\* requests are handled concurrently, by every worker
Next == Step(Requests)

Spec == Init /\ [][Next]_vars

\* requests are handled one after the other, by one worker
NextSeq == Step({1})

SpecSeq == Init /\ [][NextSeq]_vars

\* one worker, and the events' organizers update and delete their events
NextAdmin ==
    \/ Step({1})
    \/ \E u \in Callers, e \in Events, cap \in Capacities : UpdateEvent(u, e, cap)
    \/ \E u \in Callers, e \in Events : DeleteEvent(u, e)

SpecAdmin == Init /\ [][NextAdmin]_vars

\* the steps of a view run on once they can; nothing makes send_mail return
\* (RegisterEmail), which waits for the mail server
ViewsProgress ==
    \A r \in {1} :
        /\ WF_vars(RegisterValidate(r))
        /\ WF_vars(RegisterCreate(r))
        /\ WF_vars(RegisterInsert(r))
        /\ WF_vars(UnregisterLookup(r))
        /\ WF_vars(UnregisterDelete(r))
        /\ WF_vars(ListRegistrations(r))

\* one worker whose views make progress
SpecLive == Init /\ [][NextSeq]_vars /\ ViewsProgress

\* ---------------------------------------------------------------- claims
\* the typed results of the operations, as the responses carry them
Created(p) == p.op = "register" /\ p.status = HTTP_201_CREATED
Closed(p) == p.op = "register" /\ p.status = HTTP_400_BAD_REQUEST /\ p.detail = MsgPast
AlreadyRegistered(p) ==
    p.op = "register" /\ p.status = HTTP_400_BAD_REQUEST /\ p.detail = MsgAlready
Full(p) == p.op = "register" /\ p.status = HTTP_400_BAD_REQUEST /\ p.detail = MsgFull
Unhandled(p) == p.op # "none" /\ p.status = 0
Unregistered(p) == p.op = "unregister" /\ p.status = HTTP_200_OK
NotRegistered(p) ==
    p.op = "unregister" /\ p.status = HTTP_404_NOT_FOUND /\ p.detail = MsgNotRegistered
Forbidden(p) == p.op = "registrations" /\ p.status = HTTP_403_FORBIDDEN
Listed(p) == p.op = "registrations" /\ p.status = HTTP_200_OK

\* worker r has inserted its registration and is about to return it
Admitted(r) == req[r].op = "register" /\ req[r].pc = "email"

\* C1: for every event whose capacity is set, the number of live
\* registrations is at most the capacity, in every reachable state
C1_CapacityRespected ==
    \A e \in Events :
        events[e].max_participants # None =>
            registered_count(e) <= events[e].max_participants

\* C2: two Register calls by distinct users that race for the one open seat
\* of an event are never both answered with a created registration: when the
\* response to one is Created, no other worker has been admitted to the same
\* event for another user with both rows live beyond the capacity
C2_OneWinnerForLastSeat ==
    \A r \in Requests :
        ( /\ Created(resp)
          /\ Admitted(r)
          /\ req[r].event = resp.event
          /\ req[r].user # resp.user
          /\ events[resp.event].max_participants # None
          /\ \E g \in registrations : g.id = resp.reg
          /\ \E g \in registrations : g.id = req[r].reg )
        => registered_count(resp.event) <= events[resp.event].max_participants

\* C3: for every (event, user) pair there is at most one live registration
C3_UniquePair ==
    \A e \in Events, u \in Users : Cardinality(Filter(e, u)) <= 1

\* C3 witness: a duplicate insert was attempted by a concurrent Register of
\* the same user and the pair still has its one registration
C3_Witness ==
    /\ Unhandled(resp)
    /\ resp.detail = IntegrityError
    /\ Cardinality(Filter(resp.event, resp.user)) = 1

\* C4: a Register call on an open, non-full event whose caller holds a live
\* registration made by a concurrent identical call is answered
\* AlreadyRegistered, never with an unhandled fault
C4_DuplicateIsAlreadyRegistered ==
    ( /\ resp.op = "register"
      /\ ~Created(resp)
      /\ ~is_past(resp.event)
      /\ ~is_full(resp.event)
      /\ Filter(resp.event, resp.user) # {} )
    => AlreadyRegistered(resp)

\* C5: a Register that validates an existing event whose start time is
\* before the current time is answered Closed and ends there, with no
\* registration created, whatever the capacity, the count and the caller's
\* registration
C5_PastIsClosed ==
    [][\A r \in Requests :
         ( /\ req[r].op = "register"
           /\ req[r].pc = "validate"
           /\ events[req[r].event].live
           /\ is_past(req[r].event)
           /\ req'[r] # req[r] )
         => /\ Closed(resp')
            /\ req'[r] = Idle
            /\ resp'.user = req[r].user
            /\ resp'.event = req[r].event
            /\ registrations' = registrations]_vars

\* C5 witness: Closed was answered for an event that is full and whose
\* caller is registered
C5_Witness ==
    /\ Closed(resp)
    /\ is_full(resp.event)
    /\ Filter(resp.event, resp.user) # {}

\* C6: a Register by a user who already holds a live registration for a
\* future event is answered AlreadyRegistered, at every capacity setting
C6_AgainIsAlreadyRegistered ==
    ( /\ resp.op = "register"
      /\ ~Created(resp)
      /\ ~is_past(resp.event)
      /\ Filter(resp.event, resp.user) # {} )
    => AlreadyRegistered(resp)

\* C7: Unregister succeeds and removes the caller's registration when the
\* caller holds one, and fails with NotRegistered leaving the registrations
\* unchanged when the caller holds none; after either answer the caller holds
\* no registration for the event, and only a Register adds one, so that a
\* second Unregister with no Register in between is answered NotRegistered
C7_Unregister ==
    /\ []((Unregistered(resp) \/ NotRegistered(resp))
            => Filter(resp.event, resp.user) = {})
    /\ [][\A r \in Requests :
            LET e == req[r].event
                u == req[r].user
                mine == Filter(e, u) IN
            /\ ( /\ req[r].op = "unregister"
                 /\ req[r].pc = "lookup"
                 /\ req'[r] # req[r] )
               => /\ registrations' = registrations
                  /\ mine = {} => ( /\ NotRegistered(resp')
                                    /\ resp'.user = u
                                    /\ resp'.event = e )
                  /\ mine # {} => ( /\ req'[r].pc = "delete"
                                    /\ resp' = NoResponse )
            /\ ( /\ req[r].op = "unregister"
                 /\ req[r].pc = "delete"
                 /\ req'[r] # req[r] )
               => /\ Unregistered(resp')
                  /\ resp'.user = u
                  /\ resp'.event = e
                  /\ mine # {}
                  /\ registrations' = registrations \ mine
            /\ \/ registrations' \subseteq registrations
               \/ \E q \in Requests : req[q].op = "register" /\ req[q].pc = "insert"
       ]_vars

\* C7 witness: an Unregister succeeded while another user stays registered
\* for the same event
C7_Witness ==
    /\ Unregistered(resp)
    /\ RegistrationsOf(resp.event) # {}

\* C8: in the state an Unregister of (event, user) has just succeeded in, and
\* while the event is not past, a Register of the same pair is admitted: its
\* validation raises no error and its insert violates no constraint
C8_ReRegisterSucceeds ==
    (Unregistered(resp) /\ ~is_past(resp.event))
    => /\ validate_event_id(resp.event, resp.user) = ""
       /\ ~UniqueViolation(resp.event, resp.user)

\* C9: ListRegistrations of an existing event by an authenticated caller who
\* is not its organizer is answered Forbidden and carries no registration
C9_NonOrganizerForbidden ==
    ( /\ resp.op = "registrations"
      /\ resp.user \in Users
      /\ resp.status # HTTP_404_NOT_FOUND
      /\ events[resp.event].organizer # resp.user )
    => Forbidden(resp) /\ resp.body = << >>

\* C9 witness: Forbidden was answered to a caller who is registered for the
\* event
C9_Witness ==
    /\ Forbidden(resp)
    /\ Filter(resp.event, resp.user) # {}

\* C10: the list the organizer receives holds exactly the live
\* registrations of the event, each once, newest first
C10_ListIsLiveNewestFirst ==
    Listed(resp) =>
        LET n == Len(resp.body) IN
        /\ \A g \in registrations :
              g.event = resp.event => \E i \in 1..n : resp.body[i] = g
        /\ \A i \in 1..n :
              resp.body[i] \in registrations /\ resp.body[i].event = resp.event
        /\ \A i, j \in 1..n : i # j => resp.body[i] # resp.body[j]
        /\ \A i, j \in 1..n :
              i < j => resp.body[i].registered_at >= resp.body[j].registered_at

\* C10 witness: the organizer received a list of two registrations made at
\* different times
C10_Witness ==
    /\ Listed(resp)
    /\ Len(resp.body) = 2
    /\ resp.body[1].registered_at > resp.body[2].registered_at

\* C11: when the notification of an admitted Register raises, the call is
\* still answered with the created registration and ends (no second
\* attempt), and the step removes no registration
C11_MailFailureAbsorbed ==
    [][\A r \in Requests :
         (Admitted(r) /\ req'[r] # req[r] /\ resp'.mail = "failed")
         => /\ Created(resp')
            /\ resp'.reg = req[r].reg
            /\ resp'.user = req[r].user
            /\ resp'.event = req[r].event
            /\ req'[r] = Idle
            /\ registrations' = registrations]_vars

\* C11 witness: the created registration was returned after a failed
\* notification and is live
C11_Witness ==
    /\ Created(resp)
    /\ resp.mail = "failed"
    /\ \E g \in registrations : g.id = resp.reg

\* C20: a notification is attempted only by a Register whose insert was
\* made in an earlier step, once, together with its Created answer, and by
\* no call that is answered with an error
C20_NotifyAfterInsertOnly ==
    /\ [](resp.mail # "" <=> Created(resp))
    /\ [][resp'.mail # "" =>
            \E r \in Requests :
                /\ Admitted(r)
                /\ req[r].reg # 0
                /\ resp'.reg = req[r].reg
                /\ req'[r] = Idle]_vars

\* C20 witness: a Register was answered with an error, without notification
C20_Witness ==
    /\ resp.op = "register"
    /\ resp.status = HTTP_400_BAD_REQUEST
    /\ resp.mail = ""

\* C12: once a Register has inserted its registration, the created
\* registration is eventually returned to the caller, whether or not the
\* notification call completes
C12_ResponseNotBlocked ==
    \A r \in Requests : Admitted(r) ~> Created(resp)

\* the three failures of Register that validate_event_id reports
ValidationFailure(p) == Closed(p) \/ AlreadyRegistered(p) \/ Full(p)

C14_UnauthenticatedRejected ==
    /\ [](\A g \in registrations : g.user # Anonymous)
    /\ [](\A r \in Requests : req[r].pc # "idle" => req[r].user # Anonymous)
    /\ []((resp.op # "none" /\ resp.user = Anonymous)
            => resp.status = HTTP_401_UNAUTHORIZED)
    /\ [][(resp'.op # "none" /\ resp'.user = Anonymous)
            => (registrations' = registrations /\ req' = req)]_vars

\* C14 witness: an anonymous Unregister on an event that has registrations
\* was refused
C14_Witness ==
    /\ resp.op = "unregister"
    /\ resp.user = Anonymous
    /\ resp.status = HTTP_401_UNAUTHORIZED
    /\ RegistrationsOf(resp.event) # {}

\* C19 (as stated): a Register passes validation only when the event's start
\* time is strictly later than the time of the validation
C19_ClosedAtStartTime ==
    [][\A r \in Requests :
         ( /\ req[r].op = "register"
           /\ req[r].pc = "validate"
           /\ req'[r].pc = "create" )
         => events[req[r].event].date > now]_vars

\* C19 (amended): a Register is refused as Closed exactly when the event's
\* start time is strictly earlier than the time of the validation; one
\* validated at the start time itself passes the date check
C19_ClosedAfterStartTime ==
    [][\A r \in Requests :
         ( /\ req[r].op = "register"
           /\ req[r].pc = "validate"
           /\ req'[r] # req[r]
           /\ events[req[r].event].live )
         => /\ Closed(resp') <=> events[req[r].event].date < now
            /\ req'[r].pc = "create" => events[req[r].event].date >= now]_vars

\* C19 witness: a Register has passed validation and the clock reads the
\* event's start time
C19_Witness ==
    \E r \in Requests :
        /\ req[r].op = "register"
        /\ req[r].pc = "create"
        /\ events[req[r].event].date = now

\* C15: with the organizer's update among the operations, no update leaves an
\* event with a capacity below the number of its live registrations
C15_UpdateKeepsCapacityRespected ==
    [][\A e \in Events :
         ( /\ events'[e] # events[e]
           /\ events'[e].live
           /\ events'[e].max_participants # None )
         => Cardinality({ g \in registrations' : g.event = e })
              <= events'[e].max_participants]_vars

\* C16: a registration leaves the table only in the step that answers its
\* own user's Unregister of its event with success, or in the step that
\* deletes its event; every other step, the update of its event included,
\* leaves it in place
C16_OnlyOwnerOrCascadeRemoves ==
    [][\A g \in registrations :
         g \notin registrations'
         => \/ /\ Unregistered(resp')
               /\ resp'.user = g.user
               /\ resp'.event = g.event
            \/ /\ resp'.op = "destroy"
               /\ resp'.status = HTTP_204_NO_CONTENT
               /\ resp'.event = g.event
               /\ events[g.event].live
               /\ ~events'[g.event].live]_vars

\* C16 witness: the organizer has set the capacity of an event below the
\* number of its registrations, which are all still there
C16_Witness ==
    /\ resp.op = "update"
    /\ resp.status = HTTP_200_OK
    /\ events[resp.event].max_participants # None
    /\ registered_count(resp.event) > events[resp.event].max_participants

\* C17: every registration refers to an event that exists
C17_RegistrationsOfExistingEvents ==
    \A g \in registrations : events[g.event].live

\* C17 witness: the event of a Register was deleted before its INSERT, which
\* the reference to the event refused: no registration of the event is left
C17_Witness ==
    /\ resp.op = "register"
    /\ Unhandled(resp)
    /\ resp.detail = IntegrityError
    /\ ~events[resp.event].live
    /\ RegistrationsOf(resp.event) = {}

\* C18: a Register whose event is deleted while the call is in progress ends
\* in NotFound or another typed error, never in an unhandled fault
C18_DeletedEventIsTypedError ==
    (resp.op = "register" /\ ~events[resp.event].live) => ~Unhandled(resp)

\* C21: no registration is inserted after its event's start time, also when
\* the clock advances between Register's past-event check and its INSERT:
\* the time a row was inserted at (registered_at, auto_now_add) is never later
\* than the start time of its event.  The statement "at or after" asks for
\* strictly earlier and so implies this one; the equal time is C19's case.
C21_NoInsertAfterStart ==
    \A g \in registrations : g.registered_at <= events[g.event].date
====
